---- MODULE Spec2Model ----
(***************************************************************************)
(* Range mapper of day5 (src/day5/src/main.rs): Mapping, the pairwise      *)
(* Mapping::merge, the Map::merge sweep driven by unfold, the fold of      *)
(* Almanac::seed_to_location and the range query of answer_b.              *)
(*                                                                         *)
(* Option<T> is a sequence: None is <<>> and Some(x) is <<x>>.             *)
(* A Mapping is the record [length, source_start, dest_start]; a Map is    *)
(* its Vec `ranges`, a sequence of Mappings.  u64 values are naturals      *)
(* small enough that no addition overflows.                                *)
(***************************************************************************)
EXTENDS Integers, Sequences, FiniteSets, TLC

\* Largest point of the number line the Maps of Spec live on.
MaxPoint == 2
\* Largest number of Mappings in a Map drawn as input.
MaxRanges == 2

None == <<>>
Some(x) == <<x>>

\* u64::min and u64::max
Min(a, b) == IF a <= b THEN a ELSE b
Max(a, b) == IF a >= b THEN a ELSE b

new(dest_start, source_start, length) ==
    [length |-> length, source_start |-> source_start, dest_start |-> dest_start]

source_end(m) == m.source_start + m.length

\* the end of the source interval taken for the end of the destination
\* interval
dest_end_of_source_interval(m) == m.source_start + m.length

dest_end(m) == m.dest_start + m.length

\* try_map_dest with the end of the source interval included
try_map_dest_inclusive_end(m, source) ==
    IF m.source_start <= source /\ source <= (m.source_start + m.length)
    THEN Some(source - m.source_start + m.dest_start)
    ELSE None

\* try_map_dest without the translation to the destination interval
try_map_dest_untranslated(m, source) ==
    IF m.source_start <= source /\ source < (m.source_start + m.length)
    THEN Some(source - m.source_start)
    ELSE None

try_map_dest(m, source) ==
    IF m.source_start <= source /\ source < (m.source_start + m.length)
    THEN Some(source - m.source_start + m.dest_start)
    ELSE None

\* truncate_end keeping the high end, as truncate_start does
truncate_end_keeps_high_end(m, length) ==
    [length |-> Min(m.length, length),
     source_start |-> m.source_start + (m.length - Min(m.length, length)),
     dest_start |-> m.dest_start + (m.length - Min(m.length, length))]

truncate_end(m, length) ==
    [m EXCEPT !.length = Min(m.length, length)]

\* truncate_start keeping the low end, as truncate_end does
truncate_start_keeps_low_end(m, length) ==
    [m EXCEPT !.length = Min(m.length, length)]

truncate_start(m, length) ==
    LET len == Min(m.length, length)
        delta == m.length - len
    IN  [length |-> len,
         source_start |-> m.source_start + delta,
         dest_start |-> m.dest_start + delta]

Input(m) == [source |-> "Input", mapping |-> m]
Output(m) == [source |-> "Output", mapping |-> m]

\* merge_left whose Output branch truncates self instead of output
merge_left_truncates_self(self, output) ==
    IF self.dest_start < output.source_start
    THEN Some(Input(truncate_end(self,
             Min(self.length, output.source_start - self.dest_start))))
    ELSE IF output.source_start < self.dest_start
    THEN Some(Output(truncate_end(self,
             Min(output.length, self.dest_start - output.source_start))))
    ELSE None

\* Mapping::merge, field left
merge_left(self, output) ==
    IF self.dest_start < output.source_start
    THEN Some(Input(truncate_end(self,
             Min(self.length, output.source_start - self.dest_start))))
    ELSE IF output.source_start < self.dest_start
    THEN Some(Output(truncate_end(output,
             Min(output.length, self.dest_start - output.source_start))))
    ELSE None

\* merge_intersection that also emits the empty overlap of abutting ranges
merge_intersection_abutting(self, output) ==
    LET start == Max(self.dest_start, output.source_start)
        end == Min(dest_end(self), source_end(output))
    IN  IF end >= start
        THEN Some([length |-> end - start,
                   source_start |-> self.source_start + (start - self.dest_start),
                   dest_start |-> output.dest_start + (start - output.source_start)])
        ELSE None

\* merge_intersection that does not translate the overlap back into self's
\* source coordinates
merge_intersection_untranslated(self, output) ==
    LET start == Max(self.dest_start, output.source_start)
        end == Min(dest_end(self), source_end(output))
    IN  IF end > start
        THEN Some([length |-> end - start,
                   source_start |-> self.source_start,
                   dest_start |-> output.dest_start + (start - output.source_start)])
        ELSE None

\* Mapping::merge, field intersection
merge_intersection(self, output) ==
    LET start == Max(self.dest_start, output.source_start)
        end == Min(dest_end(self), source_end(output))
    IN  IF end > start
        THEN Some([length |-> end - start,
                   source_start |-> self.source_start + (start - self.dest_start),
                   dest_start |-> output.dest_start + (start - output.source_start)])
        ELSE None

\* merge_right that keeps the low end of the longer range (truncate_end)
merge_right_keeps_low_end(self, output) ==
    IF dest_end(self) > source_end(output)
    THEN Some(Input(truncate_end(self,
             Min(self.length, dest_end(self) - source_end(output)))))
    ELSE IF source_end(output) > dest_end(self)
    THEN Some(Output(truncate_end(output,
             Min(output.length, source_end(output) - dest_end(self)))))
    ELSE None

\* merge_right that takes the piece from the range that ends first
merge_right_of_shorter(self, output) ==
    IF dest_end(self) > source_end(output)
    THEN Some(Output(truncate_start(output,
             Min(output.length, dest_end(self) - source_end(output)))))
    ELSE IF source_end(output) > dest_end(self)
    THEN Some(Input(truncate_start(self,
             Min(self.length, source_end(output) - dest_end(self)))))
    ELSE None

\* Mapping::merge, field right
merge_right(self, output) ==
    IF dest_end(self) > source_end(output)
    THEN Some(Input(truncate_start(self,
             Min(self.length, dest_end(self) - source_end(output)))))
    ELSE IF source_end(output) > dest_end(self)
    THEN Some(Output(truncate_start(output,
             Min(output.length, source_end(output) - dest_end(self)))))
    ELSE None

\* The u64 subtractions a call evaluates, each as <<minuend, subtrahend>>, on
\* the path the call takes (a subtraction in a branch not taken is not
\* evaluated).  try_map_dest, line 84:
try_map_dest_subtractions(m, source) ==
    IF m.source_start <= source /\ source < (m.source_start + m.length)
    THEN {<<source, m.source_start>>}
    ELSE {}

\* truncate_start, line 99
truncate_start_subtractions(m, length) ==
    {<<m.length, Min(m.length, length)>>}

\* Mapping::merge with the Output arm of the field right subtracting the
\* ends the way the Input arm does
merge_subtractions_right_arms_alike(self, output) ==
    LET start == Max(self.dest_start, output.source_start)
        end == Min(dest_end(self), source_end(output))
    IN  (IF self.dest_start < output.source_start
         THEN {<<output.source_start, self.dest_start>>}
         ELSE IF output.source_start < self.dest_start
         THEN {<<self.dest_start, output.source_start>>}
         ELSE {})
        \cup
        (IF end > start
         THEN {<<end, start>>, <<start, self.dest_start>>,
               <<start, output.source_start>>}
         ELSE {})
        \cup
        (IF dest_end(self) > source_end(output)
         THEN {<<dest_end(self), source_end(output)>>}
              \cup truncate_start_subtractions(self,
                      Min(self.length, dest_end(self) - source_end(output)))
         ELSE IF source_end(output) > dest_end(self)
         THEN {<<dest_end(self), source_end(output)>>}
              \cup truncate_start_subtractions(output,
                      Min(output.length, source_end(output) - dest_end(self)))
         ELSE {})

\* Mapping::merge, lines 109-139: left (110, 113), intersection (123-125),
\* right (132, 135, and truncate_start's own)
merge_subtractions(self, output) ==
    LET start == Max(self.dest_start, output.source_start)
        end == Min(dest_end(self), source_end(output))
    IN  (IF self.dest_start < output.source_start
         THEN {<<output.source_start, self.dest_start>>}
         ELSE IF output.source_start < self.dest_start
         THEN {<<self.dest_start, output.source_start>>}
         ELSE {})
        \cup
        (IF end > start
         THEN {<<end, start>>, <<start, self.dest_start>>,
               <<start, output.source_start>>}
         ELSE {})
        \cup
        (IF dest_end(self) > source_end(output)
         THEN {<<dest_end(self), source_end(output)>>}
              \cup truncate_start_subtractions(self,
                      Min(self.length, dest_end(self) - source_end(output)))
         ELSE IF source_end(output) > dest_end(self)
         THEN {<<source_end(output), dest_end(self)>>}
              \cup truncate_start_subtractions(output,
                      Min(output.length, source_end(output) - dest_end(self)))
         ELSE {})

\* Mapping::merge(&self, output) -> MergeResult
Mapping_merge(self, output) ==
    [left |-> merge_left(self, output),
     intersection |-> merge_intersection(self, output),
     right |-> merge_right(self, output)]

\* left_mapping that unwraps only the Output variant
left_mapping_output_only(r) ==
    IF r.left = None \/ r.left[1].source = "Input"
    THEN None
    ELSE Some(r.left[1].mapping)

\* the left piece never emitted
left_mapping_dropped(r) ==
    None

\* MergeResult::left_mapping
left_mapping(r) ==
    IF r.left = None THEN None ELSE Some(r.left[1].mapping)

\* Map::lookup_dest: find_map over ranges in order, unwrap_or(source)
RECURSIVE find_map_dest(_, _)
find_map_dest(ranges, source) ==
    IF ranges = <<>> THEN None
    ELSE IF try_map_dest(Head(ranges), source) # None
         THEN try_map_dest(Head(ranges), source)
         ELSE find_map_dest(Tail(ranges), source)

lookup_dest(ranges, source) ==
    IF find_map_dest(ranges, source) = None
    THEN source
    ELSE find_map_dest(ranges, source)[1]

\* Vec::sort_by_key (stable); keys[i] is the key of s[i].  SortedPos is the
\* position of element i of s in the sorted Vec.
SortedPos(s, keys, i) ==
    Cardinality({j \in 1..Len(s) : keys[j] < keys[i]})
    + Cardinality({j \in 1..i : keys[j] = keys[i]})

\* sort_by_key putting the largest key first
sort_by_key_descending(s, keys) ==
    [k \in 1..Len(s) |->
        s[CHOOSE i \in 1..Len(s) : SortedPos(s, keys, i) = Len(s) + 1 - k]]

\* sort_by_key leaving the Vec in the order it was given
sort_by_key_unsorted(s, keys) ==
    s

sort_by_key(s, keys) ==
    [k \in 1..Len(s) |-> s[CHOOSE i \in 1..Len(s) : SortedPos(s, keys, i) = k]]

\* the key of the input operand taken to be source_start, as for the output
DestStartKeys_by_source_start(s) == [i \in 1..Len(s) |-> s[i].source_start]

\* the key of the output operand taken to be dest_start, as for the input
SourceStartKeys_by_dest_start(s) == [i \in 1..Len(s) |-> s[i].dest_start]

\* the key closures |m| m.dest_start and |m| m.source_start, applied to a Vec
DestStartKeys(s) == [i \in 1..Len(s) |-> s[i].dest_start]
SourceStartKeys(s) == [i \in 1..Len(s) |-> s[i].source_start]

\* filter_map(|x| x.to_owned()) over a slice of Options
RECURSIVE filter_map(_)
filter_map(opts) ==
    IF opts = <<>> THEN <<>>
    ELSE Head(opts) \o filter_map(Tail(opts))

\* The closure with both leftovers pushed back onto the lists they are tagged
\* for and the intersection alone emitted.
MergeStep_pushes_left_back(ins, outs) ==
    IF ins # <<>> /\ outs # <<>>
    THEN LET merge_result == Mapping_merge(Head(ins), Head(outs))
             pieces == filter_map(<<merge_result.left, merge_result.right>>)
             pushed(tag) == [i \in 1..Len(SelectSeq(pieces, LAMBDA p : p.source = tag))
                               |-> SelectSeq(pieces, LAMBDA p : p.source = tag)[i].mapping]
         IN  Some([inputs |-> pushed("Input") \o Tail(ins),
                   outputs |-> pushed("Output") \o Tail(outs),
                   merged |-> filter_map(<<merge_result.intersection>>)])
    ELSE IF ins = <<>> /\ outs # <<>>
    THEN Some([inputs |-> <<>>, outputs |-> Tail(outs), merged |-> <<Head(outs)>>])
    ELSE IF ins # <<>> /\ outs = <<>>
    THEN Some([inputs |-> Tail(ins), outputs |-> <<>>, merged |-> <<Head(ins)>>])
    ELSE None

\* The closure with the right piece emitted as well as pushed back.
MergeStep_emits_right(ins, outs) ==
    IF ins # <<>> /\ outs # <<>>
    THEN LET merge_result == Mapping_merge(Head(ins), Head(outs))
             right == filter_map(<<merge_result.right>>)
             merged == filter_map(<<left_mapping(merge_result),
                                    merge_result.intersection>>)
                       \o [i \in 1..Len(right) |-> right[i].mapping]
         IN  IF right # <<>> /\ right[1].source = "Input"
             THEN Some([inputs |-> <<right[1].mapping>> \o Tail(ins),
                        outputs |-> Tail(outs), merged |-> merged])
             ELSE IF right # <<>>
             THEN Some([inputs |-> Tail(ins),
                        outputs |-> <<right[1].mapping>> \o Tail(outs),
                        merged |-> merged])
             ELSE Some([inputs |-> Tail(ins), outputs |-> Tail(outs), merged |-> merged])
    ELSE IF ins = <<>> /\ outs # <<>>
    THEN Some([inputs |-> <<>>, outputs |-> Tail(outs), merged |-> <<Head(outs)>>])
    ELSE IF ins # <<>> /\ outs = <<>>
    THEN Some([inputs |-> Tail(ins), outputs |-> <<>>, merged |-> <<Head(ins)>>])
    ELSE None

\* The closure draining the remaining list from its far end.
MergeStep_drains_from_end(ins, outs) ==
    IF ins # <<>> /\ outs # <<>>
    THEN LET merge_result == Mapping_merge(Head(ins), Head(outs))
             merged == filter_map(<<left_mapping(merge_result),
                                    merge_result.intersection>>)
         IN  IF merge_result.right # None /\ merge_result.right[1].source = "Input"
             THEN Some([inputs |-> <<merge_result.right[1].mapping>> \o Tail(ins),
                        outputs |-> Tail(outs), merged |-> merged])
             ELSE IF merge_result.right # None
             THEN Some([inputs |-> Tail(ins),
                        outputs |-> <<merge_result.right[1].mapping>> \o Tail(outs),
                        merged |-> merged])
             ELSE Some([inputs |-> Tail(ins), outputs |-> Tail(outs), merged |-> merged])
    ELSE IF ins = <<>> /\ outs # <<>>
    THEN Some([inputs |-> <<>>, outputs |-> SubSeq(outs, 1, Len(outs) - 1),
               merged |-> <<outs[Len(outs)]>>])
    ELSE IF ins # <<>> /\ outs = <<>>
    THEN Some([inputs |-> SubSeq(ins, 1, Len(ins) - 1), outputs |-> <<>>,
               merged |-> <<ins[Len(ins)]>>])
    ELSE None

\* The closure handed to unfold in Map::merge: None, or Some of the next
\* state (inputs, outputs) and the Mappings emitted by this step.
MergeStep(ins, outs) ==
    IF ins # <<>> /\ outs # <<>>
    THEN LET merge_result == Mapping_merge(Head(ins), Head(outs))
             merged == filter_map(<<left_mapping(merge_result),
                                    merge_result.intersection>>)
         IN  IF merge_result.right # None /\ merge_result.right[1].source = "Input"
             THEN Some([inputs |-> <<merge_result.right[1].mapping>> \o Tail(ins),
                        outputs |-> Tail(outs),
                        merged |-> merged])
             ELSE IF merge_result.right # None
             THEN Some([inputs |-> Tail(ins),
                        outputs |-> <<merge_result.right[1].mapping>> \o Tail(outs),
                        merged |-> merged])
             ELSE Some([inputs |-> Tail(ins), outputs |-> Tail(outs),
                        merged |-> merged])
    ELSE IF ins = <<>> /\ outs # <<>>
    THEN Some([inputs |-> <<>>, outputs |-> Tail(outs), merged |-> <<Head(outs)>>])
    ELSE IF ins # <<>> /\ outs = <<>>
    THEN Some([inputs |-> Tail(ins), outputs |-> <<>>, merged |-> <<Head(ins)>>])
    ELSE None

(***************************************************************************)
(* Input Maps: Mappings with positive length whose source and destination  *)
(* intervals lie in 0..MaxPoint, at most MaxRanges per Map, source         *)
(* intervals pairwise disjoint (the Map invariant of the puzzle input).    *)
(***************************************************************************)
Points == 0..(MaxPoint + 1)

Mappings ==
    {new(d, s, l) : <<d, s, l>> \in
        {t \in (0..MaxPoint) \X (0..MaxPoint) \X (1..(MaxPoint + 1)) :
            t[1] + t[3] <= MaxPoint + 1 /\ t[2] + t[3] <= MaxPoint + 1}}

\* self operands: listed by ascending source_start (Map::merge re-sorts them
\* by dest_start)
Maps ==
    {r \in UNION {[1..n -> Mappings] : n \in 0..MaxRanges} :
        \A i \in 1..(Len(r) - 1) : source_end(r[i]) <= r[i + 1].source_start}

\* output operands: listed by descending source_start (Map::merge re-sorts
\* them by ascending source_start)
OutputMaps ==
    {[i \in 1..Len(r) |-> r[Len(r) + 1 - i]] : r \in Maps}

\* Number of stages of an Almanac (the seven Map fields, parse_almanac's
\* seven-element slice pattern)
NumStages == 7

\* Largest point and largest number of Mappings per stage in SpecChain.
ChainMaxPoint == 1
ChainMaxRanges == 1

ChainPoints == 0..(ChainMaxPoint + 1)

ChainMappings == {m \in Mappings : source_end(m) <= ChainMaxPoint + 1
                                   /\ dest_end(m) <= ChainMaxPoint + 1}

ChainMaps == {r \in Maps : Len(r) <= ChainMaxRanges
                           /\ \A i \in 1..Len(r) : r[i] \in ChainMappings}

ChainOutputMaps == {r \in OutputMaps : Len(r) <= ChainMaxRanges
                                       /\ \A i \in 1..Len(r) : r[i] \in ChainMappings}

\* Largest number of values in Almanac.seeds drawn for answer_b.
MaxSeeds == 2

SeedVecs == UNION {[1..n -> ChainPoints] : n \in 0..MaxSeeds}

\* slice::chunks_exact(2) mapped to (range_start, length) pairs
RECURSIVE chunks_exact2(_)
chunks_exact2(s) ==
    IF Len(s) < 2 THEN <<>>
    ELSE <<<<s[1], s[2]>>>> \o chunks_exact2(SubSeq(s, 3, Len(s)))

\* Iterator::min over a set of u64 values
IterMin(S) == IF S = {} THEN None ELSE Some(CHOOSE x \in S : \A y \in S : x <= y)

\* answer_b, lines 305-322: the range query over the composed Map
range_query(seed_to_location, seed_vec) ==
    LET chunks == chunks_exact2(seed_vec)
        starts == {Max(chunks[c][1], seed_to_location[i].source_start) :
                     <<c, i>> \in {ci \in (1..Len(chunks)) \X (1..Len(seed_to_location)) :
                        Max(chunks[ci[1]][1], seed_to_location[ci[2]].source_start)
                          < Min(chunks[ci[1]][1] + chunks[ci[1]][2],
                                source_end(seed_to_location[ci[2]]))}}
    IN  IterMin({lookup_dest(seed_to_location, s) : s \in starts})

VARIABLES
    self_ranges,    \* self.ranges of the Map::merge in progress
    output_ranges,  \* output.ranges of the Map::merge in progress
    inputs,         \* work list: self.ranges sorted by dest_start
    outputs,        \* work list: output.ranges sorted by source_start
    ranges,         \* Mappings collected into the result so far
    merge_result,   \* Option of the last pairwise merge: [input, output, result]
    stage,          \* index of the Almanac stage that is output of this merge
    applied,        \* history kept by SpecChain: point |-> its value after
                    \* lookup_dest of stage 1, then stage 2, ..., then stage
    seeds,          \* Almanac.seeds
    answer,         \* Option of answer_b's result
    steps,          \* history: calls of the unfold closure that returned Some
                    \* in the Map::merge in progress
    call,           \* Option of the last call of a Mapping method:
                    \* [method, self, arg, result]
    maps,           \* parse_maps: the fold's accumulator, Maps closed so far
    curr_map,       \* parse_maps: Mappings read since the last empty line
    skipping,       \* parse_maps: skip_while has let no line through yet
    fields_read,    \* history: lines with fields the fold has taken
    empty_read,     \* history: empty lines the fold has taken
    almanac,        \* Option of the Almanac parse_almanac returns
    pc

parse_vars == <<maps, curr_map, skipping, fields_read, empty_read, almanac>>

vars == <<self_ranges, output_ranges, inputs, outputs, ranges, merge_result,
          stage, applied, seeds, answer, steps, call, parse_vars, pc>>

\* Before parse_almanac has read anything
NothingParsed ==
    /\ maps = <<>>
    /\ curr_map = <<>>
    /\ skipping = TRUE
    /\ fields_read = 0
    /\ empty_read = 0
    /\ almanac = None

\* seed_to_soil.merge(&soil_to_fert) on Maps over 0..MaxPoint
Init ==
    /\ self_ranges \in Maps
    /\ output_ranges \in OutputMaps
    /\ inputs = <<>>
    /\ outputs = <<>>
    /\ ranges = <<>>
    /\ merge_result = None
    /\ stage = 2
    /\ applied = [p \in Points |-> p]
    /\ seeds = <<>>
    /\ answer = None
    /\ steps = 0
    /\ call = None
    /\ NothingParsed
    /\ pc = "merge"

\* the operands sorted where they are, without the copies of to_owned()
SortOperands_in_place ==
    /\ pc = "merge"
    /\ inputs' = sort_by_key(self_ranges, DestStartKeys(self_ranges))
    /\ outputs' = sort_by_key(output_ranges, SourceStartKeys(output_ranges))
    /\ self_ranges' = inputs'
    /\ output_ranges' = outputs'
    /\ ranges' = <<>>
    /\ pc' = "sweep"
    /\ steps' = 0
    /\ UNCHANGED <<merge_result, stage, applied, seeds, answer, call,
                   parse_vars>>

\* Map::merge, lines 158-161: copy and sort both operands
SortOperands ==
    /\ pc = "merge"
    /\ inputs' = sort_by_key(self_ranges, DestStartKeys(self_ranges))
    /\ outputs' = sort_by_key(output_ranges, SourceStartKeys(output_ranges))
    /\ ranges' = <<>>
    /\ pc' = "sweep"
    /\ steps' = 0
    /\ UNCHANGED <<self_ranges, output_ranges, merge_result, stage, applied,
                   seeds, answer, call, parse_vars>>

\* lines 164-184: both work lists non-empty
MergeHeads ==
    /\ pc = "sweep"
    /\ inputs # <<>> /\ outputs # <<>>
    /\ LET step == MergeStep(inputs, outputs)[1]
       IN  /\ inputs' = step.inputs
           /\ outputs' = step.outputs
           /\ ranges' = ranges \o step.merged
    /\ merge_result' = Some([input |-> Head(inputs), output |-> Head(outputs),
                             result |-> Mapping_merge(Head(inputs), Head(outputs))])
    /\ steps' = steps + 1
    /\ UNCHANGED <<self_ranges, output_ranges, stage, applied, seeds, answer,
                   pc, call, parse_vars>>

\* lines 185-187: inputs exhausted
DrainOutput ==
    /\ pc = "sweep"
    /\ inputs = <<>> /\ outputs # <<>>
    /\ LET step == MergeStep(inputs, outputs)[1]
       IN  /\ inputs' = step.inputs
           /\ outputs' = step.outputs
           /\ ranges' = ranges \o step.merged
    /\ steps' = steps + 1
    /\ UNCHANGED <<self_ranges, output_ranges, merge_result, stage, applied,
                   seeds, answer, pc, call, parse_vars>>

\* lines 188-190: outputs exhausted
DrainInput ==
    /\ pc = "sweep"
    /\ inputs # <<>> /\ outputs = <<>>
    /\ LET step == MergeStep(inputs, outputs)[1]
       IN  /\ inputs' = step.inputs
           /\ outputs' = step.outputs
           /\ ranges' = ranges \o step.merged
    /\ steps' = steps + 1
    /\ UNCHANGED <<self_ranges, output_ranges, merge_result, stage, applied,
                   seeds, answer, pc, call, parse_vars>>

\* lines 191-196: the closure returns None, collect() ends, Map { ranges }
Collect ==
    /\ pc = "sweep"
    /\ MergeStep(inputs, outputs) = None
    /\ pc' = "merged"
    /\ UNCHANGED <<self_ranges, output_ranges, inputs, outputs, ranges,
                   merge_result, stage, applied, seeds, answer, call,
                   parse_vars, steps>>

Next ==
    \/ SortOperands
    \/ MergeHeads
    \/ DrainOutput
    \/ DrainInput
    \/ Collect

Spec == Init /\ [][Next]_vars

(***************************************************************************)
(* SpecChain: Almanac::seed_to_location, the fold of Map::merge over the   *)
(* seven stages, followed by the range query of answer_b.  Stage k of the  *)
(* Almanac is drawn when the fold reaches it.                              *)
(***************************************************************************)
InitChain ==
    /\ self_ranges \in ChainMaps
    /\ output_ranges \in ChainOutputMaps
    /\ inputs = <<>>
    /\ outputs = <<>>
    /\ ranges = <<>>
    /\ merge_result = None
    /\ stage = 2
    /\ applied = [p \in Points |->
                    lookup_dest(output_ranges, lookup_dest(self_ranges, p))]
    /\ seeds = <<>>
    /\ answer = None
    /\ steps = 0
    /\ call = None
    /\ NothingParsed
    /\ pc = "merge"

\* seed_to_location, lines 214-220: the Map just returned is self of the
\* next .merge(&self.<stage>)
NextStage ==
    /\ pc = "merged"
    /\ stage < NumStages
    /\ \E next_stage \in ChainOutputMaps :
          /\ output_ranges' = next_stage
          /\ applied' = [p \in Points |-> lookup_dest(next_stage, applied[p])]
    /\ self_ranges' = ranges
    /\ stage' = stage + 1
    /\ pc' = "merge"
    /\ UNCHANGED <<inputs, outputs, ranges, merge_result, seeds, answer,
                   call, parse_vars, steps>>

\* answer_b, lines 304-322, on the Map seed_to_location returned
AnswerB ==
    /\ pc = "merged"
    /\ stage = NumStages
    /\ \E seed_vec \in SeedVecs :
          /\ seeds' = seed_vec
          /\ answer' = range_query(ranges, seed_vec)
    /\ pc' = "answered"
    /\ UNCHANGED <<self_ranges, output_ranges, inputs, outputs, ranges,
                   merge_result, stage, applied, call, parse_vars, steps>>

NextChain ==
    \/ SortOperands
    \/ MergeHeads
    \/ DrainOutput
    \/ DrainInput
    \/ Collect
    \/ NextStage
    \/ AnswerB

SpecChain == InitChain /\ [][NextChain]_vars

(***************************************************************************)
(* SpecMapping: one call of a Mapping method on any Mappings: merge as the  *)
(* unit tests call it (input.merge(&output)), try_map_dest, truncate_end   *)
(* and truncate_start.  Lengths include 0, which Mapping::new accepts.     *)
(***************************************************************************)
\* Largest source_start and dest_start, and largest length, in SpecMapping.
MaxStart == 4
MaxLen == 3

AnyMappings ==
    {new(d, s, l) : <<d, s, l>> \in (0..MaxStart) \X (0..MaxStart) \X (0..MaxLen)}

InitMapping ==
    /\ self_ranges = <<>>
    /\ output_ranges = <<>>
    /\ inputs = <<>>
    /\ outputs = <<>>
    /\ ranges = <<>>
    /\ merge_result = None
    /\ stage = 2
    /\ applied = [p \in Points |-> p]
    /\ seeds = <<>>
    /\ answer = None
    /\ steps = 0
    /\ call = None
    /\ NothingParsed
    /\ pc = "mapping"

MergeMappings ==
    /\ pc = "mapping"
    /\ \E input \in AnyMappings, output \in AnyMappings :
          merge_result' = Some([input |-> input, output |-> output,
                                result |-> Mapping_merge(input, output)])
    /\ pc' = "mapping_merged"
    /\ UNCHANGED <<self_ranges, output_ranges, inputs, outputs, ranges,
                   stage, applied, seeds, answer, call, parse_vars, steps>>

\* source values and max_length values the Mapping methods are called with
Sources == 0..(MaxStart + MaxLen + 1)

Lengths == 0..(MaxLen + 1)

TryMapDest ==
    /\ pc = "mapping"
    /\ \E m \in AnyMappings, source \in Sources :
          call' = Some([method |-> "try_map_dest", self |-> m, arg |-> source,
                        result |-> try_map_dest(m, source)])
    /\ pc' = "mapping_called"
    /\ UNCHANGED <<self_ranges, output_ranges, inputs, outputs, ranges,
                   merge_result, stage, applied, seeds, answer, steps,
                   parse_vars>>

TruncateEnd ==
    /\ pc = "mapping"
    /\ \E m \in AnyMappings, length \in Lengths :
          call' = Some([method |-> "truncate_end", self |-> m, arg |-> length,
                        result |-> truncate_end(m, length)])
    /\ pc' = "mapping_called"
    /\ UNCHANGED <<self_ranges, output_ranges, inputs, outputs, ranges,
                   merge_result, stage, applied, seeds, answer, steps,
                   parse_vars>>

TruncateStart ==
    /\ pc = "mapping"
    /\ \E m \in AnyMappings, length \in Lengths :
          call' = Some([method |-> "truncate_start", self |-> m, arg |-> length,
                        result |-> truncate_start(m, length)])
    /\ pc' = "mapping_called"
    /\ UNCHANGED <<self_ranges, output_ranges, inputs, outputs, ranges,
                   merge_result, stage, applied, seeds, answer, steps,
                   parse_vars>>

NextMapping ==
    \/ MergeMappings
    \/ TryMapDest
    \/ TruncateEnd
    \/ TruncateStart

SpecMapping == InitMapping /\ [][NextMapping]_vars

(***************************************************************************)
(* SpecTest: Map::merge on the Maps of test_merge_maps (lines 489-557).    *)
(* The operands are the test's Vecs and every Vec made of some of their    *)
(* Mappings in some order; Map::merge sorts its operands itself.           *)
(***************************************************************************)
TestInput == <<new(50, 98, 2), new(52, 50, 48)>>

TestOutput == <<new(0, 15, 37), new(37, 52, 2), new(39, 0, 15)>>

TestMerged ==
    <<new(39, 0, 15), new(0, 15, 35), new(35, 98, 2), new(37, 50, 2),
      new(54, 52, 46)>>

\* every Vec that holds distinct elements of s, in any order
Arrangements(s) ==
    {t \in UNION {[1..n -> {s[i] : i \in 1..Len(s)}] : n \in 0..Len(s)} :
        \A i, j \in 1..Len(t) : i # j => t[i] # t[j]}

InitTest ==
    /\ self_ranges \in Arrangements(TestInput)
    /\ output_ranges \in Arrangements(TestOutput)
    /\ inputs = <<>>
    /\ outputs = <<>>
    /\ ranges = <<>>
    /\ merge_result = None
    /\ stage = 2
    /\ applied = [p \in Points |-> p]
    /\ seeds = <<>>
    /\ answer = None
    /\ steps = 0
    /\ call = None
    /\ NothingParsed
    /\ pc = "merge"

SpecTest == InitTest /\ [][Next]_vars

(***************************************************************************)
(* SpecParse: parse_almanac, one line of the reader per step.  A line is   *)
(* the sequence of its whitespace-separated tokens; a token is the number  *)
(* it spells, and a negative number stands for a token that                *)
(* parse::<u64>() refuses.  The parser computes nothing on the numbers, so *)
(* two natural values are enough.                                          *)
(***************************************************************************)
\* Lines with fields, and empty lines, the reader yields after the seeds.
MaxMappingLines == 2
MaxEmptyLines == 8

Tokens == {-1, 0, 1}

\* a non-empty line without "map:" has any number of tokens; the match of
\* line 266 tells three apart from every other number
MaxTokens == 4

FieldLines == UNION {[1..n -> Tokens] : n \in 0..MaxTokens}

SeedLines == {<<>>, <<0, 1>>}

\* The match on parse_maps' result: the arm of the seven-element slice
\* pattern gives the Almanac, every other length is the panic arm (None).
\* match_stages_prefix: the pattern taken as a prefix pattern.
match_stages_prefix(seed_vec, stages) ==
    IF Len(stages) >= NumStages
    THEN Some([seeds |-> seed_vec,
               seed_to_soil |-> stages[1],
               soil_to_fert |-> stages[2],
               fert_to_water |-> stages[3],
               water_to_light |-> stages[4],
               light_to_temp |-> stages[5],
               temp_to_hum |-> stages[6],
               hum_to_location |-> stages[7]])
    ELSE None

match_stages(seed_vec, stages) ==
    IF Len(stages) = NumStages
    THEN Some([seeds |-> seed_vec,
               seed_to_soil |-> stages[1],
               soil_to_fert |-> stages[2],
               fert_to_water |-> stages[3],
               water_to_light |-> stages[4],
               light_to_temp |-> stages[5],
               temp_to_hum |-> stages[6],
               hum_to_location |-> stages[7]])
    ELSE None

InitParse ==
    /\ self_ranges = <<>>
    /\ output_ranges = <<>>
    /\ inputs = <<>>
    /\ outputs = <<>>
    /\ ranges = <<>>
    /\ merge_result = None
    /\ stage = 2
    /\ applied = [p \in Points |-> p]
    /\ seeds = <<>>
    /\ answer = None
    /\ steps = 0
    /\ call = None
    /\ NothingParsed
    /\ pc = "parse_seeds"

\* lines 237-247
ParseSeeds ==
    /\ pc = "parse_seeds"
    /\ seeds' \in SeedLines
    /\ pc' = "parse_maps"
    /\ UNCHANGED <<self_ranges, output_ranges, inputs, outputs, ranges,
                   merge_result, stage, applied, answer, steps, call,
                   parse_vars>>

\* line 251: a line that contains "map:" is filtered out before skip_while
\* and the fold see it
ReadMapHeader ==
    /\ pc = "parse_maps"
    /\ UNCHANGED vars

\* lines 252, 256-258: an empty line is dropped while no other line has come
\* through, and closes the current Map otherwise
ReadEmptyLine ==
    /\ pc = "parse_maps"
    /\ empty_read < MaxEmptyLines
    /\ empty_read' = empty_read + 1
    /\ IF skipping
       THEN UNCHANGED <<maps, curr_map>>
       ELSE /\ maps' = Append(maps, curr_map)
            /\ curr_map' = <<>>
    /\ UNCHANGED <<self_ranges, output_ranges, inputs, outputs, ranges,
                   merge_result, stage, applied, seeds, answer, steps, call,
                   skipping, fields_read, almanac, pc>>

\* lines 259-272: a line with tokens
ReadFieldsLine ==
    /\ pc = "parse_maps"
    /\ fields_read < MaxMappingLines
    /\ fields_read' = fields_read + 1
    /\ skipping' = FALSE
    /\ \E line \in FieldLines :
          IF \E i \in 1..Len(line) : line[i] < 0
          THEN /\ pc' = "panic_parse"
               /\ UNCHANGED curr_map
          ELSE IF Len(line) = 3
          THEN /\ curr_map' = Append(curr_map, new(line[1], line[2], line[3]))
               /\ UNCHANGED pc
          ELSE /\ pc' = "panic_line"
               /\ UNCHANGED curr_map
    /\ UNCHANGED <<self_ranges, output_ranges, inputs, outputs, ranges,
                   merge_result, stage, applied, seeds, answer, steps, call,
                   maps, empty_read, almanac>>

\* the end of the input closing the Map being read, as an empty line does
EndOfInput_closes_last_stage ==
    /\ pc = "parse_maps"
    /\ LET returned == IF curr_map = <<>> THEN maps ELSE Append(maps, curr_map)
       IN  /\ almanac' = match_stages(seeds, returned)
           /\ pc' = IF match_stages(seeds, returned) # None
                    THEN "parsed" ELSE "panic_count"
    /\ UNCHANGED <<self_ranges, output_ranges, inputs, outputs, ranges,
                   merge_result, stage, applied, seeds, answer, steps, call,
                   maps, curr_map, skipping, fields_read, empty_read>>

\* lines 275, 280-293: the reader is exhausted; the fold's curr_map is
\* dropped (.0) and the Vec of Maps is matched
EndOfInput ==
    /\ pc = "parse_maps"
    /\ almanac' = match_stages(seeds, maps)
    /\ pc' = IF match_stages(seeds, maps) # None THEN "parsed" ELSE "panic_count"
    /\ UNCHANGED <<self_ranges, output_ranges, inputs, outputs, ranges,
                   merge_result, stage, applied, seeds, answer, steps, call,
                   maps, curr_map, skipping, fields_read, empty_read>>

NextParse ==
    \/ ParseSeeds
    \/ ReadMapHeader
    \/ ReadEmptyLine
    \/ ReadFieldsLine
    \/ EndOfInput

SpecParse == InitParse /\ [][NextParse]_vars

(***************************************************************************)
(* SpecSample: the Almanac of the tests sample_a, test_seed_locations,     *)
(* sample_b and test_seed_to_location, which parse test.txt, the canonical *)
(* sample almanac the specification names.  seed_to_location folds         *)
(* Map::merge over its seven stages, one call of Map::merge per step; then *)
(* one of lookup_seed_location, closest_seed_location and answer_b's range *)
(* query is called.                                                        *)
(***************************************************************************)
\* unfold(closure, (inputs, outputs)) flattened (lines 7-32, 162-196): the
\* Mappings of all steps, until the closure returns None
RECURSIVE unfold(_, _)
unfold(ins, outs) ==
    LET step == MergeStep(ins, outs)
    IN  IF step = None
        THEN <<>>
        ELSE step[1].merged \o unfold(step[1].inputs, step[1].outputs)

\* Map::merge as one call: self.merge(&output)
Map_merge(self, output) ==
    unfold(sort_by_key(self, DestStartKeys(self)),
           sort_by_key(output, SourceStartKeys(output)))

SampleSeeds == <<79, 14, 55, 13>>

SampleStages ==
    << <<new(50, 98, 2), new(52, 50, 48)>>,
       <<new(0, 15, 37), new(37, 52, 2), new(39, 0, 15)>>,
       <<new(49, 53, 8), new(0, 11, 42), new(42, 0, 7), new(57, 7, 4)>>,
       <<new(88, 18, 7), new(18, 25, 70)>>,
       <<new(45, 77, 23), new(81, 45, 19), new(68, 64, 13)>>,
       <<new(0, 69, 1), new(1, 0, 69)>>,
       <<new(60, 56, 37), new(56, 93, 4)>> >>

\* Largest seed lookup_seed_location is called with.
MaxSampleSeed == 99

InitSample ==
    /\ almanac = match_stages(SampleSeeds, SampleStages)
    /\ seeds = SampleSeeds
    /\ self_ranges = <<>>
    /\ output_ranges = <<>>
    /\ inputs = <<>>
    /\ outputs = <<>>
    /\ ranges = SampleStages[1]
    /\ merge_result = None
    /\ stage = 2
    /\ applied = [p \in Points |-> p]
    /\ answer = None
    /\ steps = 0
    /\ call = None
    /\ maps = SampleStages
    /\ curr_map = <<>>
    /\ skipping = FALSE
    /\ fields_read = 0
    /\ empty_read = 0
    /\ pc = "seed_to_location"

\* the Almanac's stage fields in the order seed_to_location merges them
AlmanacStages(a) ==
    <<a.seed_to_soil, a.soil_to_fert, a.fert_to_water, a.water_to_light,
      a.light_to_temp, a.temp_to_hum, a.hum_to_location>>

\* seed_to_location, lines 214-220: ranges is the Map merged so far (at
\* first self.seed_to_soil), stage the field the next .merge() takes
MergeAlmanacStage ==
    /\ pc = "seed_to_location"
    /\ ranges' = Map_merge(ranges, AlmanacStages(almanac[1])[stage])
    /\ IF stage < NumStages
       THEN stage' = stage + 1 /\ UNCHANGED pc
       ELSE pc' = "merged" /\ UNCHANGED stage
    /\ UNCHANGED <<self_ranges, output_ranges, inputs, outputs, merge_result,
                   applied, seeds, answer, steps, call, parse_vars>>

\* lines 223-225, on the Map seed_to_location returned
LookupSeedLocation ==
    /\ pc = "merged"
    /\ stage = NumStages
    /\ \E seed \in 0..MaxSampleSeed :
          call' = Some([method |-> "lookup_seed_location", self |-> ranges,
                        arg |-> seed, result |-> lookup_dest(ranges, seed)])
    /\ pc' = "looked_up"
    /\ UNCHANGED <<self_ranges, output_ranges, inputs, outputs, ranges,
                   merge_result, stage, applied, seeds, answer, steps,
                   parse_vars>>

\* lines 227-233 and answer_a; min() of no seed is None, which unwrap()
\* turns into a panic
ClosestSeedLocation ==
    /\ pc = "merged"
    /\ stage = NumStages
    /\ answer' = IterMin({lookup_dest(ranges, almanac[1].seeds[i]) :
                            i \in 1..Len(almanac[1].seeds)})
    /\ pc' = "answered_a"
    /\ UNCHANGED <<self_ranges, output_ranges, inputs, outputs, ranges,
                   merge_result, stage, applied, seeds, steps, call,
                   parse_vars>>

\* answer_b, lines 304-322, on the Almanac's own seeds
AnswerBOfAlmanac ==
    /\ pc = "merged"
    /\ stage = NumStages
    /\ answer' = range_query(ranges, almanac[1].seeds)
    /\ pc' = "answered_b"
    /\ UNCHANGED <<self_ranges, output_ranges, inputs, outputs, ranges,
                   merge_result, stage, applied, seeds, steps, call,
                   parse_vars>>

NextSample ==
    \/ MergeAlmanacStage
    \/ LookupSeedLocation
    \/ ClosestSeedLocation
    \/ AnswerBOfAlmanac

SpecSample == InitSample /\ [][NextSample]_vars

(***************************************************************************)
(* Properties of Map::merge and Map::lookup_dest, checked under Spec.      *)
(***************************************************************************)
Covers(m, p) == m.source_start <= p /\ p < m.source_start + m.length

Covered(rs, p) == \E i \in 1..Len(rs) : Covers(rs[i], p)

\* The Map invariant: source intervals pairwise disjoint
SourcesDisjoint(rs) ==
    \A i, j \in 1..Len(rs) :
        i < j => \/ rs[i].source_start + rs[i].length <= rs[j].source_start
                 \/ rs[j].source_start + rs[j].length <= rs[i].source_start

AllPositive(rs) == \A i \in 1..Len(rs) : rs[i].length > 0

\* C1: for Maps A and B with positive lengths and pairwise disjoint source
\* intervals, the merged Map sends every point p to B.lookup_dest(A.lookup_dest(p)).
C1_MergeIsComposition ==
    (/\ pc = "merged"
     /\ AllPositive(self_ranges) /\ AllPositive(output_ranges)
     /\ SourcesDisjoint(self_ranges) /\ SourcesDisjoint(output_ranges))
    => \A p \in Points :
          lookup_dest(ranges, p) = lookup_dest(output_ranges, lookup_dest(self_ranges, p))

\* C4: when every input Mapping has length > 0, no piece of a pairwise
\* Mapping::merge (left, intersection, right) and no Mapping held or emitted
\* by Map::merge has length 0.
C4_NoZeroLength ==
    (AllPositive(self_ranges) /\ AllPositive(output_ranges))
    => /\ AllPositive(inputs) /\ AllPositive(outputs) /\ AllPositive(ranges)
       /\ merge_result # None =>
            LET r == merge_result[1].result
            IN  /\ r.left # None => r.left[1].mapping.length > 0
                /\ r.intersection # None => r.intersection[1].length > 0
                /\ r.right # None => r.right[1].mapping.length > 0

\* C4 witness: a finished merge whose last pairwise merge was of two ranges
\* that abut (A's destination range ends where B's source range starts).
C4_Witness ==
    /\ pc = "merged"
    /\ merge_result # None
    /\ dest_end(merge_result[1].input) = merge_result[1].output.source_start
    /\ merge_result[1].result.intersection = None
    /\ Len(ranges) >= 2

\* C5: the source intervals of A.merge(B), restricted to the union of A's
\* source intervals, cover exactly that union.
C5_CoverageConserved ==
    (pc = "merged" /\ SourcesDisjoint(self_ranges) /\ SourcesDisjoint(output_ranges))
    => {p \in Points : Covered(ranges, p) /\ Covered(self_ranges, p)}
         = {p \in Points : Covered(self_ranges, p)}

\* C5 witness: a finished merge in which a Mapping of A was split into a
\* left piece, an intersection and a right piece.
C5_Witness ==
    /\ pc = "merged"
    /\ Len(self_ranges) = 1
    /\ Len(output_ranges) = 1
    /\ Len(ranges) = 3
    /\ \A i \in 1..3 : ranges[i].source_start = self_ranges[1].source_start + (i - 1)

\* Index of the first Mapping of rs that covers p (0 if none does).
FirstCovering(rs, p) ==
    IF Covered(rs, p)
    THEN CHOOSE i \in 1..Len(rs) :
            Covers(rs[i], p) /\ \A j \in 1..(i - 1) : ~Covers(rs[j], p)
    ELSE 0

LookupAsClaimed(rs) ==
    \A p \in Points :
        IF ~Covered(rs, p)
        THEN lookup_dest(rs, p) = p
        ELSE LET m == rs[FirstCovering(rs, p)]
             IN  lookup_dest(rs, p) = m.dest_start + (p - m.source_start)

\* C6: lookup_dest returns p for a point p in no source interval, and the
\* image dest_start + (p - source_start) under the Mapping that covers p
\* (the first such Mapping in ranges when the intervals overlap), for both
\* operands of a Map::merge and for the Map it returns.
C6_LookupIdentityFallback ==
    pc = "merged" =>
        /\ LookupAsClaimed(self_ranges)
        /\ LookupAsClaimed(output_ranges)
        /\ LookupAsClaimed(ranges)

\* C6 witness: a merged Map with a point it covers and moves, and a point it
\* does not cover.
C6_Witness ==
    /\ pc = "merged"
    /\ \E p \in Points : Covered(ranges, p) /\ lookup_dest(ranges, p) # p
    /\ \E p \in Points : ~Covered(ranges, p) /\ p <= MaxPoint

(***************************************************************************)
(* Properties of the fold and of the range query, checked under SpecChain. *)
(***************************************************************************)
\* C2: lookup_dest on the Map seed_to_location returns (merge folded over the
\* seven stages, each with pairwise disjoint source intervals) equals, for
\* every point, lookup_dest applied stage by stage.
C2_ChainIsSequentialLookup ==
    (pc = "merged" /\ stage = NumStages)
    => \A p \in Points : lookup_dest(ranges, p) = applied[p]

\* Every integer of every seed range [start, start + length)
SeedPoints(seed_vec) ==
    {s \in 0..(2 * MaxPoint + 2) :
        \E k \in 1..(Len(seed_vec) \div 2) :
            seed_vec[2 * k - 1] <= s /\ s < seed_vec[2 * k - 1] + seed_vec[2 * k]}

\* C3: the range query of answer_b returns the minimum of lookup_dest(s) over
\* every integer s of every seed range, the parts no Mapping covers included.
C3_RangeQueryIsMinimum ==
    pc = "answered"
    => LET dests == {lookup_dest(ranges, s) : s \in SeedPoints(seeds)}
       IN  IF dests = {}
           THEN answer = None
           ELSE answer = Some(CHOOSE x \in dests : \A y \in dests : x <= y)

(***************************************************************************)
(* Properties of Mapping::merge, checked under SpecMapping.                *)
(***************************************************************************)
Smaller(a, b) == CHOOSE x \in {a, b} : x <= a /\ x <= b
Larger(a, b) == CHOOSE x \in {a, b} : x >= a /\ x >= b

\* piece is a part of Mapping m: inside its source interval, same offset
PieceOf(piece, m) ==
    /\ m.source_start <= piece.source_start
    /\ piece.source_start + piece.length <= m.source_start + m.length
    /\ piece.dest_start + m.source_start = piece.source_start + m.dest_start

\* C7: the intersection is None exactly when
\* min(A.dest_end, B.source_end) <= max(A.dest_start, B.source_start);
\* otherwise it has length overlap_end - overlap_start, source_start
\* A.source_start + (overlap_start - A.dest_start) and dest_start
\* B.dest_start + (overlap_start - B.source_start).
C7_Intersection ==
    merge_result # None =>
        LET A == merge_result[1].input
            B == merge_result[1].output
            r == merge_result[1].result
            overlap_start == Larger(A.dest_start, B.source_start)
            overlap_end == Smaller(A.dest_start + A.length, B.source_start + B.length)
        IN  /\ (r.intersection = None) <=> (overlap_end <= overlap_start)
            /\ overlap_end > overlap_start =>
                 r.intersection =
                    Some([length |-> overlap_end - overlap_start,
                          source_start |-> A.source_start + (overlap_start - A.dest_start),
                          dest_start |-> B.dest_start + (overlap_start - B.source_start)])

\* C7 witness: an intersection that starts inside both A's destination range
\* and B's source range has been computed (as in
\* test_merge_mapping_failing_example).
C7_Witness ==
    /\ pc = "mapping_merged"
    /\ merge_result[1].result.intersection # None
    /\ merge_result[1].output.source_start < merge_result[1].input.dest_start
    /\ merge_result[1].input.source_start # merge_result[1].input.dest_start
    /\ merge_result[1].output.source_start # merge_result[1].output.dest_start

\* C8: left is None iff A.dest_start = B.source_start; if A starts first it is
\* Input(the low end of A of length min(A.length, B.source_start - A.dest_start)),
\* all of A when A lies wholly before B; if B starts first it is Output(the
\* low end of B of length min(B.length, A.dest_start - B.source_start)).  The
\* piece keeps its origin's source_start and dest_start.
C8_Left ==
    merge_result # None =>
        LET A == merge_result[1].input
            B == merge_result[1].output
            r == merge_result[1].result
        IN  /\ (r.left = None) <=> (A.dest_start = B.source_start)
            /\ A.dest_start < B.source_start =>
                 r.left = Some(Input(
                    [length |-> Smaller(A.length, B.source_start - A.dest_start),
                     source_start |-> A.source_start,
                     dest_start |-> A.dest_start]))
            /\ A.dest_start + A.length <= B.source_start /\ A.dest_start < B.source_start =>
                 r.left = Some(Input(A))
            /\ B.source_start < A.dest_start =>
                 r.left = Some(Output(
                    [length |-> Smaller(B.length, A.dest_start - B.source_start),
                     source_start |-> B.source_start,
                     dest_start |-> B.dest_start]))

\* C8 witness: a left piece that is a proper low end of A has been computed.
C8_Witness ==
    /\ pc = "mapping_merged"
    /\ merge_result[1].result.left # None
    /\ merge_result[1].result.left[1].source = "Input"
    /\ merge_result[1].result.left[1].mapping.length < merge_result[1].input.length
    /\ merge_result[1].result.left[1].mapping.length > 0

\* The high end of Mapping m of length len
HighEnd(m, len) ==
    [length |-> len,
     source_start |-> m.source_start + (m.length - len),
     dest_start |-> m.dest_start + (m.length - len)]

\* C9: right is None iff A.dest_end = B.source_end; otherwise it is the high
\* end of the range that ends later: Input(high end of A of length
\* min(A.length, A.dest_end - B.source_end)) or Output(high end of B of length
\* min(B.length, B.source_end - A.dest_end)); when the ranges are disjoint
\* the later Mapping (of positive length) is returned whole.
C9_Right ==
    merge_result # None =>
        LET A == merge_result[1].input
            B == merge_result[1].output
            r == merge_result[1].result
            A_end == A.dest_start + A.length
            B_end == B.source_start + B.length
        IN  /\ (r.right = None) <=> (A_end = B_end)
            /\ A_end > B_end =>
                 r.right = Some(Input(HighEnd(A, Smaller(A.length, A_end - B_end))))
            /\ B_end > A_end =>
                 r.right = Some(Output(HighEnd(B, Smaller(B.length, B_end - A_end))))
            /\ (A_end <= B.source_start /\ B.length > 0) => r.right = Some(Output(B))
            /\ (B_end <= A.dest_start /\ A.length > 0) => r.right = Some(Input(A))

\* C9 witness: a right piece that is a proper high end of B has been computed
\* (as in test_merge_mapping_input_intersects_output_left).
C9_Witness ==
    /\ pc = "mapping_merged"
    /\ merge_result[1].result.right # None
    /\ merge_result[1].result.right[1].source = "Output"
    /\ merge_result[1].result.right[1].mapping.length < merge_result[1].output.length
    /\ merge_result[1].result.right[1].mapping.source_start
         > merge_result[1].output.source_start
    /\ merge_result[1].result.intersection # None

\* C10 as stated: on each side the Mapping whose bound is strictly smaller
\* contributes the leftover piece, tagged with its origin; equal bounds give
\* no leftover on that side.
C10_SmallerBoundContributes ==
    merge_result # None =>
        LET A == merge_result[1].input
            B == merge_result[1].output
            r == merge_result[1].result
            A_end == A.dest_start + A.length
            B_end == B.source_start + B.length
        IN  /\ A.dest_start < B.source_start =>
                 r.left # None /\ r.left[1].source = "Input"
                               /\ PieceOf(r.left[1].mapping, A)
            /\ B.source_start < A.dest_start =>
                 r.left # None /\ r.left[1].source = "Output"
                               /\ PieceOf(r.left[1].mapping, B)
            /\ A.dest_start = B.source_start => r.left = None
            /\ A_end < B_end =>
                 r.right # None /\ r.right[1].source = "Input"
                                /\ PieceOf(r.right[1].mapping, A)
            /\ B_end < A_end =>
                 r.right # None /\ r.right[1].source = "Output"
                                /\ PieceOf(r.right[1].mapping, B)
            /\ A_end = B_end => r.right = None

\* C10 amended: on the left side the Mapping whose start bound is strictly
\* smaller contributes the left piece; on the right side the Mapping whose
\* end bound is strictly LARGER contributes the right piece; each piece is
\* tagged with its origin and equal bounds give no leftover on that side.
C10_OriginRule ==
    merge_result # None =>
        LET A == merge_result[1].input
            B == merge_result[1].output
            r == merge_result[1].result
            A_end == A.dest_start + A.length
            B_end == B.source_start + B.length
        IN  /\ A.dest_start < B.source_start =>
                 r.left # None /\ r.left[1].source = "Input"
                               /\ PieceOf(r.left[1].mapping, A)
            /\ B.source_start < A.dest_start =>
                 r.left # None /\ r.left[1].source = "Output"
                               /\ PieceOf(r.left[1].mapping, B)
            /\ A.dest_start = B.source_start => r.left = None
            /\ A_end > B_end =>
                 r.right # None /\ r.right[1].source = "Input"
                                /\ PieceOf(r.right[1].mapping, A)
            /\ B_end > A_end =>
                 r.right # None /\ r.right[1].source = "Output"
                                /\ PieceOf(r.right[1].mapping, B)
            /\ A_end = B_end => r.right = None

\* C10 witness: B starts first and A ends last, so the left piece is tagged
\* Output and the right piece Input, around an intersection.
C10_Witness ==
    /\ pc = "mapping_merged"
    /\ merge_result[1].result.left # None
    /\ merge_result[1].result.left[1].source = "Output"
    /\ merge_result[1].result.intersection # None
    /\ merge_result[1].result.right # None
    /\ merge_result[1].result.right[1].source = "Input"

(***************************************************************************)
(* Properties of test_merge_maps, checked under SpecTest.                  *)
(***************************************************************************)
\* C11: Map::merge of the input Map [(50,98,2),(52,50,48)] with the output
\* Map [(0,15,37),(37,52,2),(39,0,15)] (dest_start, source_start, length)
\* yields exactly the five Mappings (39,0,15), (0,15,35), (35,98,2),
\* (37,50,2), (54,52,46), in this order.
C11_TestMergeMaps ==
    (pc = "merged" /\ self_ranges = TestInput /\ output_ranges = TestOutput)
        => ranges = TestMerged

C11_Witness ==
    /\ pc = "merged"
    /\ self_ranges = TestInput
    /\ output_ranges = TestOutput
    /\ Len(ranges) = 5

(***************************************************************************)
(* Properties of try_map_dest, truncate_end and truncate_start, checked    *)
(* under SpecMapping.                                                      *)
(***************************************************************************)
Called(method) == call # None /\ call[1].method = method

\* C12: try_map_dest(source) returns Some(dest_start + (source - source_start))
\* if and only if source_start <= source < source_start + length, and None
\* otherwise, for every Mapping and every source value.
C12_TryMapDest ==
    Called("try_map_dest") =>
        LET m == call[1].self
            source == call[1].arg
            applicable == /\ m.source_start <= source
                          /\ source < m.source_start + m.length
        IN  /\ applicable <=> call[1].result # None
            /\ applicable =>
                 call[1].result = Some(m.dest_start + (source - m.source_start))
            /\ ~applicable => call[1].result = None

\* a source inside the interval, not at its start, translated to another value
C12_Witness ==
    /\ Called("try_map_dest")
    /\ call[1].self.source_start < call[1].arg
    /\ call[1].result # None
    /\ call[1].result[1] # call[1].arg
    /\ call[1].self.dest_start > 0

\* C13: truncate_end and truncate_start both return a Mapping of length
\* min(m.length, max_length); truncate_end keeps source_start and dest_start
\* (the low end), truncate_start advances both by
\* m.length - min(m.length, max_length) so that source_end and dest_end are
\* kept (the high end); both keep the offset dest_start - source_start.
C13_Truncation ==
    (Called("truncate_end") \/ Called("truncate_start")) =>
        LET m == call[1].self
            max_length == call[1].arg
            r == call[1].result
            kept == IF m.length <= max_length THEN m.length ELSE max_length
        IN  /\ r.length = kept
            /\ r.dest_start - r.source_start = m.dest_start - m.source_start
            /\ Called("truncate_end") =>
                  /\ r.source_start = m.source_start
                  /\ r.dest_start = m.dest_start
            /\ Called("truncate_start") =>
                  /\ r.source_start = m.source_start + (m.length - kept)
                  /\ r.dest_start = m.dest_start + (m.length - kept)
                  /\ r.source_start + r.length = m.source_start + m.length
                  /\ r.dest_start + r.length = m.dest_start + m.length

\* truncate_start that drops a proper, non-empty part of the Mapping
C13_Witness ==
    /\ Called("truncate_start")
    /\ 0 < call[1].result.length
    /\ call[1].result.length < call[1].self.length
    /\ call[1].result.source_start > call[1].self.source_start

(***************************************************************************)
(* Properties of parse_almanac, checked under SpecParse.                   *)
(***************************************************************************)
\* every Mapping the parser holds: in the Map being read, in the Maps
\* closed, and in the Almanac
ParsedMappings ==
    {curr_map[i] : i \in 1..Len(curr_map)}
    \cup UNION {{maps[k][i] : i \in 1..Len(maps[k])} : k \in 1..Len(maps)}

\* C14: a Mapping of length 0 is rejected when it is constructed
\* (Mapping::new, called by the parser for each triple), so that no Mapping
\* of length 0 is held by a Map that reaches lookup or merge.
C14_ZeroLengthRejected ==
    \A m \in ParsedMappings : m.length > 0

\* C15: parse_almanac ends in the failure outcome, with no Almanac, whenever
\* the number of parsed stages is not exactly 7 (zero stages included), and
\* with exactly 7 stages the Almanac holds them in application order.
C15_SevenStagesOrFailure ==
    /\ pc = "panic_count" => (Len(maps) # 7 /\ almanac = None)
    /\ pc = "parsed" =>
          /\ Len(maps) = 7
          /\ almanac # None
          /\ AlmanacStages(almanac[1]) = maps
          /\ almanac[1].seeds = seeds
    /\ almanac # None => pc = "parsed"
    /\ pc \in {"parse_seeds", "parse_maps", "parsed", "panic_count",
               "panic_line", "panic_parse"}

\* one stage too many, the first of them not empty
C15_Witness ==
    /\ pc = "panic_count"
    /\ Len(maps) = 8
    /\ maps[1] # <<>>
    /\ almanac = None

(***************************************************************************)
(* Properties of the sample Almanac, checked under SpecSample.             *)
(***************************************************************************)
SeedToLocationDone == stage = NumStages /\ pc # "seed_to_location"

LookedUp(seed, location) ==
    (Called("lookup_seed_location") /\ call[1].arg = seed)
        => call[1].result = location

\* C16: on the sample Almanac (seeds 79 14 55 13) lookup_seed_location gives
\* 79 -> 82, 14 -> 43, 55 -> 86 and 13 -> 35, the closest seed location is
\* 35, seed_to_location().lookup_dest(82) is 46, and the range query over
\* the seed ranges (79,14) and (55,13) is Some(46).
C16_SampleAnswers ==
    /\ LookedUp(79, 82)
    /\ LookedUp(14, 43)
    /\ LookedUp(55, 86)
    /\ LookedUp(13, 35)
    /\ LookedUp(82, 46)
    /\ pc = "answered_a" => answer = Some(35)
    /\ pc = "answered_b" => answer = Some(46)
    /\ SeedToLocationDone =>
          /\ lookup_dest(ranges, 79) = 82
          /\ lookup_dest(ranges, 14) = 43
          /\ lookup_dest(ranges, 55) = 86
          /\ lookup_dest(ranges, 13) = 35
          /\ lookup_dest(ranges, 82) = 46

C16_Witness ==
    /\ pc = "answered_b"
    /\ stage = NumStages
    /\ seeds = SampleSeeds
    /\ answer # None

(***************************************************************************)
(* Properties of the steps of the sweep of Map::merge, checked under Spec. *)
(***************************************************************************)
\* a sweep step with both work lists non-empty is about to be taken
PairStep == pc = "sweep" /\ inputs # <<>> /\ outputs # <<>>

\* the Mapping of an optional tagged piece, as a Vec of at most one Mapping
PieceMapping(piece) == IF piece = None THEN <<>> ELSE <<piece[1].mapping>>

\* an optional Mapping, as a Vec of at most one Mapping
OptionMapping(opt) == IF opt = None THEN <<>> ELSE <<opt[1]>>

\* the Mappings among the pieces that are tagged for the list named
TaggedFor(tag, pieces) ==
    {p[1].mapping : p \in {q \in pieces : q # None /\ q[1].source = tag}}

Elements(s) == {s[i] : i \in 1..Len(s)}

\* C17 as claimed: in every sweep step with both work lists non-empty only
\* the intersection (if present) is emitted, and each leftover piece, left
\* as well as right, is pushed back onto the list it is tagged for.
C17_BothLeftoversPushedBack ==
    [][PairStep =>
        LET r == Mapping_merge(Head(inputs), Head(outputs))
        IN  /\ ranges' = ranges \o OptionMapping(r.intersection)
            /\ TaggedFor("Input", {r.left, r.right}) \subseteq Elements(inputs')
            /\ TaggedFor("Output", {r.left, r.right}) \subseteq Elements(outputs')
    ]_vars

\* C17 amended: in every sweep step with both work lists non-empty the heads
\* are merged pairwise; the left piece (if present) and then the
\* intersection (if present) are emitted, and the right piece alone is
\* pushed back onto the front of the list it is tagged for, both heads
\* being removed.
C17_LeftEmittedRightPushedBack ==
    [][PairStep =>
        LET r == Mapping_merge(Head(inputs), Head(outputs))
            right_for(tag) == IF r.right # None /\ r.right[1].source = tag
                              THEN PieceMapping(r.right) ELSE <<>>
        IN  /\ ranges' = ranges \o PieceMapping(r.left)
                                  \o OptionMapping(r.intersection)
            /\ inputs' = right_for("Input") \o Tail(inputs)
            /\ outputs' = right_for("Output") \o Tail(outputs)
    ]_vars

\* a pairwise step has emitted a left piece and an intersection and pushed
\* the right piece back
C17_Witness ==
    /\ pc = "sweep"
    /\ steps = 1
    /\ merge_result # None
    /\ merge_result[1].result.left # None
    /\ merge_result[1].result.intersection # None
    /\ merge_result[1].result.right # None
    /\ Len(ranges) = 2
    /\ ranges[1] = merge_result[1].result.left[1].mapping
    /\ Len(inputs) + Len(outputs) >= 1

\* the sum of the lengths of the two work lists
Remaining == Len(inputs) + Len(outputs)

\* the closure returns Some: a sweep step is about to be taken
SweepStep == pc = "sweep" /\ Remaining > 0

\* C18: Map::merge terminates: every sweep step strictly decreases
\* |inputs| + |outputs| (by two heads removed and at most one right piece
\* pushed back, or by one Mapping drained), the sweep goes on while a work
\* list is non-empty and stops exactly when both are empty, and the number
\* of steps is at most |input| + |output|.
C18_SweepTerminates ==
    /\ [][SweepStep => /\ pc' = "sweep"
                       /\ Len(inputs') + Len(outputs') < Remaining
                       /\ Len(inputs') + Len(outputs') >= Remaining - 2
                       /\ steps' = steps + 1]_vars
    /\ [][(pc = "sweep" /\ pc' = "merged") => Remaining = 0]_vars
    /\ [](pc = "sweep" => (MergeStep(inputs, outputs) # None <=> Remaining > 0))
    /\ [](pc = "sweep" =>
            steps + Remaining <= Len(self_ranges) + Len(output_ranges))
    /\ [](pc = "merged" =>
            /\ Remaining = 0
            /\ steps <= Len(self_ranges) + Len(output_ranges))

\* a sweep that took as many steps as the operands have Mappings, pairwise
\* steps among them
C18_Witness ==
    /\ pc = "merged"
    /\ merge_result # None
    /\ steps = Len(self_ranges) + Len(output_ranges)
    /\ steps >= 3

\* |input| + |output|, the number of Mappings of the two operands
OperandMappings == Len(self_ranges) + Len(output_ranges)

\* C19 as claimed: the result of Map::merge(input, output) holds at most
\* |input| + |output| Mappings, for Maps with pairwise-disjoint source
\* intervals and positive lengths.
C19_AtMostOperandMappings ==
    pc = "merged" => Len(ranges) <= OperandMappings

\* C19 amended: the result of Map::merge(input, output) holds at most
\* 2 * (|input| + |output|) - 1 Mappings when an operand is non-empty, and
\* none when both are empty, for Maps with pairwise-disjoint source
\* intervals and positive lengths; while the sweep runs, the Mappings
\* emitted so far and still to come stay within that bound.
C19_AtMostTwicePieces ==
    /\ pc = "merged" =>
          Len(ranges) <= IF OperandMappings = 0 THEN 0 ELSE 2 * OperandMappings - 1
    /\ (pc = "sweep" /\ Remaining > 0) =>
          Len(ranges) + 2 * Remaining - 1 <= 2 * OperandMappings - 1

\* a result with more Mappings than the operands have, at the amended bound
C19_Witness ==
    /\ pc = "merged"
    /\ Len(ranges) > OperandMappings
    /\ Len(ranges) = 2 * OperandMappings - 1
    /\ Len(self_ranges) > 0 /\ Len(output_ranges) > 0

\* a drain step is about to be taken: one work list is empty, the other not
DrainStep ==
    /\ pc = "sweep"
    /\ inputs = <<>> \/ outputs = <<>>
    /\ Remaining > 0

\* C20: once one work list of the sweep is empty, every step emits the head
\* of the other list unchanged at the end of the result, after all pieces
\* emitted earlier, and removes it from its list, in list order; no
\* pairwise merge happens any more and the empty list stays empty.
C20_DrainUnchanged ==
    [][DrainStep =>
        LET rest == inputs \o outputs
        IN  /\ ranges' = Append(ranges, Head(rest))
            /\ inputs' \o outputs' = Tail(rest)
            /\ inputs = <<>> => inputs' = <<>>
            /\ outputs = <<>> => outputs' = <<>>
            /\ merge_result' = merge_result
            /\ DrainStep' \/ Remaining' = 0
    ]_vars

\* after a pairwise step, two whole Mappings of the output operand were
\* drained in order behind the pieces emitted earlier
C20_Witness ==
    /\ pc = "merged"
    /\ merge_result # None
    /\ Len(output_ranges) = 2
    /\ Len(ranges) >= 3
    /\ ranges[Len(ranges) - 1] = output_ranges[2]
    /\ ranges[Len(ranges)] = output_ranges[1]
    /\ steps = 3

(***************************************************************************)
(* Properties of Map::merge as a whole, checked under Spec.                *)
(***************************************************************************)
\* rs holds the Mappings of operand, each once, in ascending order of keys
SameMappingsSortedBy(rs, operand, keys) ==
    /\ Len(rs) = Len(operand)
    /\ \A m \in Elements(operand) :
          Cardinality({i \in 1..Len(rs) : rs[i] = m})
            = Cardinality({i \in 1..Len(operand) : operand[i] = m})
    /\ \A i \in 1..(Len(rs) - 1) : keys[i] <= keys[i + 1]

\* C21: if an operand of Map::merge has no Mappings, the sweep performs no
\* pairwise merge and the result is exactly the other operand's Mappings,
\* each unchanged: in ascending source_start when the input side is empty,
\* in ascending dest_start when the output side is empty; two empty Maps
\* merge into an empty Map.
C21_EmptyOperand ==
    /\ (pc \in {"sweep", "merged"}
          /\ (self_ranges = <<>> \/ output_ranges = <<>>)) => merge_result = None
    /\ (pc = "merged" /\ self_ranges = <<>>) =>
          SameMappingsSortedBy(ranges, output_ranges,
                               [i \in 1..Len(ranges) |-> ranges[i].source_start])
    /\ (pc = "merged" /\ output_ranges = <<>>) =>
          SameMappingsSortedBy(ranges, self_ranges,
                               [i \in 1..Len(ranges) |-> ranges[i].dest_start])
    /\ (pc = "merged" /\ self_ranges = <<>> /\ output_ranges = <<>>) =>
          ranges = <<>>

\* an empty input side and two output Mappings whose order by source_start
\* is neither the order they were given in nor their order by dest_start
C21_Witness ==
    /\ pc = "merged"
    /\ self_ranges = <<>>
    /\ Len(output_ranges) = 2
    /\ ranges = <<output_ranges[2], output_ranges[1]>>
    /\ ranges[1].dest_start > ranges[2].dest_start

LookupOrderFree(rs) ==
    \A p \in 0..(MaxPoint + 2) :
        \A i, j \in 1..Len(rs) :
            (Covers(rs[i], p) /\ Covers(rs[j], p))
                => try_map_dest(rs[i], p) = try_map_dest(rs[j], p)

\* C23: Map::merge preserves the Map invariant: if the source intervals of A
\* are pairwise disjoint and those of B are pairwise disjoint (lengths > 0),
\* the source intervals of the Mappings of A.merge(B) are pairwise disjoint,
\* so that lookup_dest on the merged Map does not depend on the order of its
\* ranges.
C23_MergeKeepsSourcesDisjoint ==
    (/\ pc = "merged"
     /\ AllPositive(self_ranges) /\ AllPositive(output_ranges)
     /\ SourcesDisjoint(self_ranges) /\ SourcesDisjoint(output_ranges))
    => SourcesDisjoint(ranges) /\ LookupOrderFree(ranges)

DestCovers(m, p) == m.dest_start <= p /\ p < m.dest_start + m.length

\* destination intervals pairwise disjoint
DestsDisjoint(rs) ==
    \A i, j \in 1..Len(rs) :
        i < j => \/ rs[i].dest_start + rs[i].length <= rs[j].dest_start
                 \/ rs[j].dest_start + rs[j].length <= rs[i].dest_start

\* a stage that permutes its own domain: sources pairwise disjoint,
\* destinations pairwise disjoint, and the union of the source intervals is
\* the union of the destination intervals
PermutesItsDomain(rs) ==
    /\ AllPositive(rs)
    /\ SourcesDisjoint(rs)
    /\ DestsDisjoint(rs)
    /\ \A p \in 0..(MaxPoint + 2) :
          (\E i \in 1..Len(rs) : Covers(rs[i], p))
              <=> (\E i \in 1..Len(rs) : DestCovers(rs[i], p))

\* C24: when stage A permutes its own domain and B has pairwise disjoint
\* source intervals (lengths > 0), A.merge(B).lookup_dest(p) is
\* B.lookup_dest(A.lookup_dest(p)) for every point p, and the source
\* intervals of the merged Map are pairwise disjoint.
C24_PermutationStageComposes ==
    (/\ pc = "merged"
     /\ PermutesItsDomain(self_ranges)
     /\ AllPositive(output_ranges) /\ SourcesDisjoint(output_ranges))
    => /\ \A p \in 0..(MaxPoint + 2) :
            lookup_dest(ranges, p)
              = lookup_dest(output_ranges, lookup_dest(self_ranges, p))
       /\ SourcesDisjoint(ranges)

\* A swaps two points without fixing any, B moves points inside and outside
\* A's domain, and the merged Map moves a point A leaves alone
C24_Witness ==
    /\ pc = "merged"
    /\ PermutesItsDomain(self_ranges)
    /\ Len(self_ranges) = 2
    /\ \A i \in 1..2 : self_ranges[i].dest_start # self_ranges[i].source_start
    /\ Len(output_ranges) = 2
    /\ \E p \in Points : /\ ~Covered(self_ranges, p)
                          /\ Covered(output_ranges, p)
                          /\ lookup_dest(ranges, p) # p
    /\ \E p \in Points : /\ Covered(self_ranges, p)
                          /\ Covered(output_ranges, lookup_dest(self_ranges, p))
                          /\ lookup_dest(ranges, p) # lookup_dest(self_ranges, p)

(***************************************************************************)
(* Properties of the pieces and of the arithmetic of Mapping::merge,       *)
(* checked under SpecMapping.                                              *)
(***************************************************************************)
\* the leftover pieces (left, right) of a MergeResult with the tag named
LeftoversOf(r, tag) ==
    {k \in {"left", "right"} : r[k] # None /\ r[k][1].source = tag}

\* how many of the tagged leftovers, read in their own source coordinates,
\* and of the interval [start, start + length) (the intersection, if any)
\* hold the point p
TimesCovered(r, tag, start, length, p) ==
    Cardinality({k \in LeftoversOf(r, tag) : Covers(r[k][1].mapping, p)})
    + (IF start <= p /\ p < start + length THEN 1 ELSE 0)

Offset(m) == m.dest_start - m.source_start

\* C25: for Mappings A and B of length > 0, the Input pieces of
\* Mapping::merge(A, B) and the intersection (in A's source coordinates)
\* cover every point of A's source interval exactly once and no other
\* point; the Output pieces and the intersection's range in B's source
\* coordinates do the same for B's source interval; every Input piece keeps
\* A's offset dest_start - source_start and every Output piece keeps B's.
C25_PiecesPartitionOrigins ==
    (/\ pc = "mapping_merged"
     /\ merge_result[1].input.length > 0
     /\ merge_result[1].output.length > 0)
    => LET A == merge_result[1].input
           B == merge_result[1].output
           r == merge_result[1].result
           i == r.intersection
           len == IF i = None THEN 0 ELSE i[1].length
           \* the intersection's start in A's and in B's source coordinates
           in_A == IF i = None THEN 0 ELSE i[1].source_start
           in_B == IF i = None THEN 0
                   ELSE B.source_start + (i[1].dest_start - B.dest_start)
       IN  /\ \A p \in 0..(MaxStart + MaxLen + 1) :
                 /\ TimesCovered(r, "Input", in_A, len, p)
                      = IF Covers(A, p) THEN 1 ELSE 0
                 /\ TimesCovered(r, "Output", in_B, len, p)
                      = IF Covers(B, p) THEN 1 ELSE 0
           /\ \A k \in LeftoversOf(r, "Input") :
                 Offset(r[k][1].mapping) = Offset(A)
           /\ \A k \in LeftoversOf(r, "Output") :
                 Offset(r[k][1].mapping) = Offset(B)

\* B's range strictly inside A's destination range: two Input pieces around
\* the intersection, and A moves points
C25_Witness ==
    /\ pc = "mapping_merged"
    /\ LeftoversOf(merge_result[1].result, "Input") = {"left", "right"}
    /\ merge_result[1].result.intersection # None
    /\ Offset(merge_result[1].input) # 0
    /\ Offset(merge_result[1].output) # 0

\* no subtraction of the set goes below zero
NoUnderflow(subtractions) == \A s \in subtractions : s[1] >= s[2]

\* the three fields of a Mapping are values of u64
IsU64Mapping(m) == m.length >= 0 /\ m.source_start >= 0 /\ m.dest_start >= 0

\* C26: no unsigned subtraction underflows: for all Mappings (fields are
\* naturals, start + length does not overflow) every subtraction evaluated
\* in try_map_dest, truncate_start and Mapping::merge has a minuend that is
\* at least its subtrahend, and every value and Mapping returned is made of
\* naturals.
C26_NoSubtractionUnderflows ==
    /\ Called("try_map_dest") =>
          /\ NoUnderflow(try_map_dest_subtractions(call[1].self, call[1].arg))
          /\ \A i \in 1..Len(call[1].result) : call[1].result[i] >= 0
    /\ Called("truncate_start") =>
          /\ NoUnderflow(truncate_start_subtractions(call[1].self, call[1].arg))
          /\ IsU64Mapping(call[1].result)
    /\ pc = "mapping_merged" =>
          LET r == merge_result[1].result
          IN  /\ NoUnderflow(merge_subtractions(merge_result[1].input,
                                                merge_result[1].output))
              /\ \A k \in {"left", "right"} :
                    r[k] # None => IsU64Mapping(r[k][1].mapping)
              /\ r.intersection # None => IsU64Mapping(r.intersection[1])

\* a merge that takes the Output arm on the left and on the right and has
\* an intersection: six subtractions, some of them with equal operands
C26_Witness ==
    /\ pc = "mapping_merged"
    /\ merge_result[1].result.intersection # None
    /\ LeftoversOf(merge_result[1].result, "Output") = {"left", "right"}
    /\ Cardinality(merge_subtractions(merge_result[1].input,
                                       merge_result[1].output)) >= 5
    /\ \E s \in merge_subtractions(merge_result[1].input,
                                     merge_result[1].output) : s[1] = s[2]

(***************************************************************************)
(* Properties of the work lists of the sweep, checked under Spec.          *)
(***************************************************************************)
\* C27: if A's destination intervals are pairwise disjoint and B's source
\* intervals are pairwise disjoint, then in every state of the sweep inputs
\* is in ascending order of dest_start and outputs in ascending order of
\* source_start, and the intervals of each list are pairwise disjoint, also
\* right after a right piece was pushed onto the front of its list.
C27_WorkListsStaySorted ==
    (/\ pc = "sweep"
     /\ DestsDisjoint(self_ranges)
     /\ SourcesDisjoint(output_ranges))
    => /\ \A i \in 1..(Len(inputs) - 1) :
            inputs[i].dest_start <= inputs[i + 1].dest_start
       /\ \A i \in 1..(Len(outputs) - 1) :
            outputs[i].source_start <= outputs[i + 1].source_start
       /\ DestsDisjoint(inputs)
       /\ SourcesDisjoint(outputs)

\* a right piece of the input side was just pushed in front of another
\* Mapping of inputs, and outputs still holds a Mapping
C27_Witness ==
    /\ pc = "sweep"
    /\ DestsDisjoint(self_ranges)
    /\ steps = 1
    /\ merge_result # None
    /\ merge_result[1].result.right # None
    /\ merge_result[1].result.right[1].source = "Input"
    /\ Len(inputs) = 2
    /\ inputs[1] = merge_result[1].result.right[1].mapping
    /\ inputs[1] # merge_result[1].input
    /\ outputs # <<>>

(***************************************************************************)
(* Properties of parse_maps, checked under SpecParse.                      *)
(***************************************************************************)
\* the places (Map, position) of the Mappings held by the Maps closed so far
ClosedPlaces ==
    UNION {{<<k, i>> : i \in 1..Len(maps[k])} : k \in 1..Len(maps)}

\* C28: parse_maps closes a stage only when it reads an empty line: leading
\* empty lines are dropped, every later empty line appends the Mappings
\* collected since the previous one as one Map (possibly empty), and the
\* Mappings of lines that follow the last empty line are in none of the
\* Maps returned, so that a last stage without an empty line behind it is
\* missing from the result.
C28_StageClosedByEmptyLineOnly ==
    /\ [][pc = "parse_maps" =>
            /\ maps' # maps => empty_read' = empty_read + 1
            /\ empty_read' = empty_read + 1 =>
                  IF skipping
                  THEN maps' = maps /\ curr_map' = curr_map
                  ELSE maps' = Append(maps, curr_map) /\ curr_map' = <<>>
            /\ pc' \in {"parsed", "panic_count"} =>
                  /\ maps' = maps
                  /\ almanac' # None => AlmanacStages(almanac'[1]) = maps
       ]_vars
    /\ [](skipping => (maps = <<>> /\ curr_map = <<>>))
    /\ [](pc \in {"parse_maps", "parsed", "panic_count"} =>
            Cardinality(ClosedPlaces) + Len(curr_map) = fields_read)

\* six stages closed, the seventh read but not followed by an empty line:
\* parse_almanac finds one stage fewer than the input holds
C28_Witness ==
    /\ pc = "panic_count"
    /\ Len(maps) = 6
    /\ maps[1] # <<>>
    /\ curr_map # <<>>
    /\ almanac = None

====
